---- MODULE Spec2Model ----
(***************************************************************************)
(* Access resolution and visibility predicates of tududi's                 *)
(* backend/services/permissionsService.js: getSharedUidsForUser,           *)
(* getAccess and ownershipOrPermissionWhere over the Project, Task, Note   *)
(* and Permission tables and the isAdmin oracle.                           *)
(***************************************************************************)
EXTENDS Integers, FiniteSets, Sequences, TLC

\* ------------------------------------------------------------------ bounds
NumUsers == 2
MaxProjects == 1
MaxUids == 1
MaxGrants == 2
\* Grants stored at any time in the interleaved specification.
MaxInFlightGrants == 1

\* ------------------------------------------------------------- constants
\* JS null / a falsy project_id, and the absent result of findOne.
Null == 0

ACCESS == [NONE |-> "none", RO |-> "ro", RW |-> "rw", ADMIN |-> "admin"]

Users == 1..NumUsers
ProjectIds == 1..MaxProjects
\* External identifiers; disjoint from the internal ids so that a lookup by
\* uid and a lookup by id are different queries.
Uids == {100 + k : k \in 1..MaxUids}
KnownTypes == {"project", "task", "note"}
\* "area" stands for any resource type getAccess has no branch for.
ResourceTypes == KnownTypes \cup {"area"}
GrantLevels == {ACCESS.RO, ACCESS.RW}

VARIABLES
    admins,     \* users for which rolesService.isAdmin answers true
    projects,   \* Project table: rows [id, uid, user_id]
    tasks,      \* Task table: rows [uid, user_id, project_id]
    notes,      \* Note table: rows [uid, user_id, project_id]
    perms,      \* Permission table: rows [user_id, resource_type, resource_uid, access_level]
    ret,        \* outcome of the last isolated call, until the caller takes it
    pc,         \* position of the in-flight interleaved call
    call        \* arguments and locals of the in-flight interleaved call

store == <<admins, projects, tasks, notes, perms>>
vars == <<admins, projects, tasks, notes, perms, ret, pc, call>>

\* ------------------------------------------------------------ collaborators
isAdmin(userId) == userId \in admins

\* Model.findOne({where: {uid}}): the matching rows (empty when there is none).
FindByUid(rows, uid) == {r \in rows : r.uid = uid}

\* Project.findOne({where: {id}}).
FindById(rows, id) == {r \in rows : r.id = id}

\* Permission.findOne({where: {user_id, resource_type, resource_uid}}).
FindPermission(userId, resourceType, resourceUid) ==
    {p \in perms : /\ p.user_id = userId
                   /\ p.resource_type = resourceType
                   /\ p.resource_uid = resourceUid}

Row(found) == CHOOSE r \in found : TRUE

ChildTable(resourceType) == IF resourceType = "task" THEN tasks ELSE notes

Table(resourceType) ==
    CASE resourceType = "project" -> projects
      [] resourceType = "task" -> tasks
      [] resourceType = "note" -> notes
      [] OTHER -> {}

\* ---------------------------------------------------------------- getAccess
getSharedUidsForUser(resourceType, userId) ==
    {p.resource_uid : p \in {q \in perms : /\ q.user_id = userId
                                            /\ q.resource_type = resourceType}}

\* Lines 85-95: the explicit grant, or NONE.
SharedAccess(userId, resourceType, resourceUid) ==
    LET perm == FindPermission(userId, resourceType, resourceUid)
    IN  IF perm # {} THEN Row(perm).access_level ELSE ACCESS.NONE

RECURSIVE getAccess(_, _, _)

\* Variant of InheritedAccess: a flat "is the project shared with the user"
\* lookup in place of the recursive resolution.
InheritedAccessFlat(userId, t) ==
    IF t.project_id # Null
    THEN LET project == FindById(projects, t.project_id)
         IN  IF project # {}
             THEN SharedAccess(userId, "project", Row(project).uid)
             ELSE ACCESS.NONE
    ELSE ACCESS.NONE

\* Lines 38-55 and 65-82: the level inherited from the parent project of the
\* child row t, NONE when there is nothing to inherit.
InheritedAccess(userId, t) ==
    IF t.project_id # Null
    THEN LET project == FindById(projects, t.project_id)
         IN  IF project # {}
             THEN getAccess(userId, "project", Row(project).uid)
             ELSE ACCESS.NONE
    ELSE ACCESS.NONE

\* Variant of ProjectBranch: a missing row falls through to the grant lookup.
ProjectBranchFallThrough(userId, resourceUid) ==
    LET proj == FindByUid(projects, resourceUid)
    IN  IF proj # {} /\ Row(proj).user_id = userId THEN ACCESS.RW
        ELSE SharedAccess(userId, "project", resourceUid)

\* Lines 21-28.
ProjectBranch(userId, resourceUid) ==
    LET proj == FindByUid(projects, resourceUid)
    IN  IF proj = {} THEN ACCESS.NONE
        ELSE IF Row(proj).user_id = userId THEN ACCESS.RW
        ELSE SharedAccess(userId, "project", resourceUid)

Rank(level) ==
    CASE level = ACCESS.NONE -> 0
      [] level = ACCESS.RO -> 1
      [] level = ACCESS.RW -> 2
      [] level = ACCESS.ADMIN -> 3

\* Variant of ChildBranch: the explicit grant is consulted before ownership.
ChildBranchGrantFirst(userId, resourceType, resourceUid) ==
    LET t == FindByUid(ChildTable(resourceType), resourceUid)
        shared == SharedAccess(userId, resourceType, resourceUid)
    IN  IF t = {} THEN ACCESS.NONE
        ELSE IF shared # ACCESS.NONE THEN shared
        ELSE IF Row(t).user_id = userId THEN ACCESS.RW
        ELSE InheritedAccess(userId, Row(t))

\* Variant of ChildBranch: the stronger of the inherited and the direct level.
ChildBranchStrongest(userId, resourceType, resourceUid) ==
    LET t == FindByUid(ChildTable(resourceType), resourceUid)
    IN  IF t = {} THEN ACCESS.NONE
        ELSE IF Row(t).user_id = userId THEN ACCESS.RW
        ELSE LET projectAccess == InheritedAccess(userId, Row(t))
                 shared == SharedAccess(userId, resourceType, resourceUid)
             IN  IF Rank(shared) > Rank(projectAccess) THEN shared ELSE projectAccess

\* Lines 29-55 (task) and 56-83 (note).
ChildBranch(userId, resourceType, resourceUid) ==
    LET t == FindByUid(ChildTable(resourceType), resourceUid)
    IN  IF t = {} THEN ACCESS.NONE
        ELSE IF Row(t).user_id = userId THEN ACCESS.RW
        ELSE LET projectAccess == InheritedAccess(userId, Row(t))
             IN  IF projectAccess # ACCESS.NONE
                 THEN projectAccess
                 ELSE SharedAccess(userId, resourceType, resourceUid)

\* Variant of getAccess: the admin bypass comes after the existence check.
getAccessExistenceFirst(userId, resourceType, resourceUid) ==
    IF resourceType \in KnownTypes /\ FindByUid(Table(resourceType), resourceUid) = {}
    THEN ACCESS.NONE
    ELSE IF isAdmin(userId) THEN ACCESS.ADMIN
    ELSE CASE resourceType = "project" -> ProjectBranch(userId, resourceUid)
           [] resourceType \in {"task", "note"} ->
                  ChildBranch(userId, resourceType, resourceUid)
           [] OTHER -> SharedAccess(userId, resourceType, resourceUid)

\* Lines 17-96.
getAccess(userId, resourceType, resourceUid) ==
    IF isAdmin(userId) THEN ACCESS.ADMIN
    ELSE CASE resourceType = "project" -> ProjectBranch(userId, resourceUid)
           [] resourceType \in {"task", "note"} ->
                  ChildBranch(userId, resourceType, resourceUid)
           [] OTHER -> SharedAccess(userId, resourceType, resourceUid)

\* ------------------------------------------------ ownershipOrPermissionWhere
\* One condition of a where clause: field op value.
Cond(field, op, user, set) == [field |-> field, op |-> op, user |-> user, set |-> set]

OwnedBy(userId) == Cond("user_id", "eq", userId, {})
UidIn(uids) == Cond("uid", "in", Null, uids)
ProjectIdIn(ids) == Cond("project_id", "in", Null, ids)
UidIsNull == Cond("uid", "is_null", Null, {})

\* {} (no restriction) and {[Op.or]: conditions}.
NoRestriction == [all |-> TRUE, or |-> <<>>]
AnyOf(conditions) == [all |-> FALSE, or |-> conditions]

\* Variant of SharedProjectIds: the shared uids used as if they were ids.
SharedProjectIdsUnresolved(sharedProjectUids) == sharedProjectUids

\* Lines 110-119: the internal ids of the projects shared with the user.
SharedProjectIds(sharedProjectUids) ==
    IF sharedProjectUids # {}
    THEN {p.id : p \in {q \in projects : q.uid \in sharedProjectUids}}
    ELSE {}

\* Variant of ChildConditions: the uid condition is pushed even when empty.
ChildConditionsEmptyIn(userId, sharedUids, sharedProjectIds) ==
    <<OwnedBy(userId), UidIn(sharedUids)>>
    \o (IF sharedProjectIds # {} THEN <<ProjectIdIn(sharedProjectIds)>> ELSE <<>>)

\* Lines 121-133.
ChildConditions(userId, sharedUids, sharedProjectIds) ==
    <<OwnedBy(userId)>>
    \o (IF sharedUids # {} THEN <<UidIn(sharedUids)>> ELSE <<>>)
    \o (IF sharedProjectIds # {} THEN <<ProjectIdIn(sharedProjectIds)>> ELSE <<>>)

\* Lines 137-144.
OtherConditions(userId, sharedUids) ==
    <<OwnedBy(userId), IF sharedUids # {} THEN UidIn(sharedUids) ELSE UidIsNull>>

ownershipOrPermissionWhere(resourceType, userId) ==
    IF isAdmin(userId) THEN NoRestriction
    ELSE LET sharedUids == getSharedUidsForUser(resourceType, userId)
         IN  IF resourceType \in {"task", "note"}
             THEN LET sharedProjectUids == getSharedUidsForUser("project", userId)
                      sharedProjectIds == SharedProjectIds(sharedProjectUids)
                  IN  AnyOf(ChildConditions(userId, sharedUids, sharedProjectIds))
             ELSE AnyOf(OtherConditions(userId, sharedUids))

\* How the store (SQL) evaluates one condition on a row.
CondHolds(c, r) ==
    CASE c.field = "user_id" -> r.user_id = c.user
      [] c.field = "uid" /\ c.op = "in" -> r.uid \in c.set
      [] c.field = "uid" /\ c.op = "is_null" -> r.uid = Null
      [] c.field = "project_id" -> r.project_id # Null /\ r.project_id \in c.set
      [] OTHER -> FALSE

Matches(where, r) ==
    where.all \/ \E i \in 1..Len(where.or) : CondHolds(where.or[i], r)

\* ------------------------------------------------------------ store changes
ProjectRow(id, uid, owner) == [id |-> id, uid |-> uid, user_id |-> owner]
ChildRow(uid, owner, pid) == [uid |-> uid, user_id |-> owner, project_id |-> pid]
PermissionRow(u, t, uid, level) ==
    [user_id |-> u, resource_type |-> t, resource_uid |-> uid, access_level |-> level]

SetAdmin(u) ==
    /\ admins' = IF u \in admins THEN admins \ {u} ELSE admins \cup {u}
    /\ UNCHANGED <<projects, tasks, notes, perms>>

CreateProject(id, uid, owner) ==
    /\ FindById(projects, id) = {}
    /\ FindByUid(projects, uid) = {}
    /\ projects' = projects \cup {ProjectRow(id, uid, owner)}
    /\ UNCHANGED <<admins, tasks, notes, perms>>

DeleteProject(p) ==
    /\ p \in projects
    /\ projects' = projects \ {p}
    /\ UNCHANGED <<admins, tasks, notes, perms>>

CreateTask(uid, owner, pid) ==
    /\ FindByUid(tasks, uid) = {}
    /\ tasks' = tasks \cup {ChildRow(uid, owner, pid)}
    /\ UNCHANGED <<admins, projects, notes, perms>>

MoveTask(t, pid) ==
    /\ t \in tasks
    /\ pid # t.project_id
    /\ tasks' = (tasks \ {t}) \cup {ChildRow(t.uid, t.user_id, pid)}
    /\ UNCHANGED <<admins, projects, notes, perms>>

DeleteTask(t) ==
    /\ t \in tasks
    /\ tasks' = tasks \ {t}
    /\ UNCHANGED <<admins, projects, notes, perms>>

CreateNote(uid, owner, pid) ==
    /\ FindByUid(notes, uid) = {}
    /\ notes' = notes \cup {ChildRow(uid, owner, pid)}
    /\ UNCHANGED <<admins, projects, tasks, perms>>

MoveNote(n, pid) ==
    /\ n \in notes
    /\ pid # n.project_id
    /\ notes' = (notes \ {n}) \cup {ChildRow(n.uid, n.user_id, pid)}
    /\ UNCHANGED <<admins, projects, tasks, perms>>

DeleteNote(n) ==
    /\ n \in notes
    /\ notes' = notes \ {n}
    /\ UNCHANGED <<admins, projects, tasks, perms>>

CreateGrant(u, t, uid, level) ==
    /\ Cardinality(perms) < MaxGrants
    /\ FindPermission(u, t, uid) = {}
    /\ perms' = perms \cup {PermissionRow(u, t, uid, level)}
    /\ UNCHANGED <<admins, projects, tasks, notes>>

RevokeGrant(p) ==
    /\ p \in perms
    /\ perms' = perms \ {p}
    /\ UNCHANGED <<admins, projects, tasks, notes>>

Mutate ==
    \/ \E u \in Users : SetAdmin(u)
    \/ \E id \in ProjectIds, uid \in Uids, o \in Users : CreateProject(id, uid, o)
    \/ \E p \in projects : DeleteProject(p)
    \/ \E uid \in Uids, o \in Users, pid \in ProjectIds \cup {Null} : CreateTask(uid, o, pid)
    \/ \E t \in tasks, pid \in ProjectIds \cup {Null} : MoveTask(t, pid)
    \/ \E t \in tasks : DeleteTask(t)
    \/ \E uid \in Uids, o \in Users, pid \in ProjectIds \cup {Null} : CreateNote(uid, o, pid)
    \/ \E n \in notes, pid \in ProjectIds \cup {Null} : MoveNote(n, pid)
    \/ \E n \in notes : DeleteNote(n)
    \/ \E u \in Users, t \in ResourceTypes, uid \in Uids, l \in GrantLevels :
           CreateGrant(u, t, uid, l)
    \/ \E p \in perms : RevokeGrant(p)

\* ------------------------------------------------------------ isolated calls
\* A call evaluated against one snapshot of the store (the transactionally
\* isolated view of section 5), and its outcome handed to the caller.
Idle == [op |-> "idle", user |-> Null, type |-> "", uid |-> Null,
         level |-> "", where |-> NoRestriction]

GetAccessCall(u, t, uid) ==
    /\ ret = Idle
    /\ ret' = [op |-> "getAccess", user |-> u, type |-> t, uid |-> uid,
               level |-> getAccess(u, t, uid), where |-> NoRestriction]
    /\ UNCHANGED <<store, pc, call>>

WhereCall(t, u) ==
    /\ ret = Idle
    /\ ret' = [op |-> "where", user |-> u, type |-> t, uid |-> Null,
               level |-> "", where |-> ownershipOrPermissionWhere(t, u)]
    /\ UNCHANGED <<store, pc, call>>

Return ==
    /\ ret # Idle
    /\ ret' = Idle
    /\ UNCHANGED <<store, pc, call>>

\* --------------------------------------------------------- interleaved calls
\* One call in flight, one store read per step, store changes in between.
\* inner is the uid of the project being resolved by the recursive
\* getAccess(userId, 'project', project.uid), Null outside of it.
NoCall ==
    [op |-> "none", user |-> Null, type |-> "", uid |-> Null, inner |-> Null,
     project_id |-> Null, sharedUids |-> {}, sharedProjectUids |-> {},
     failed |-> FALSE, parentMissing |-> FALSE, everGranted |-> FALSE,
     outcome |-> "", level |-> "", where |-> NoRestriction]

ReadPcs == {"isAdmin", "findProject", "findChild", "findParent", "findPerm",
            "sharedUids", "sharedProjectUids", "findProjects"}

CurType == IF call.inner # Null THEN "project" ELSE call.type
CurUid == IF call.inner # Null THEN call.inner ELSE call.uid

\* A call is made: nothing is read yet.
Begin(op, u, t, uid) ==
    /\ pc = "idle"
    /\ pc' = "isAdmin"
    /\ call' = [NoCall EXCEPT !.op = op, !.user = u, !.type = t, !.uid = uid,
                              !.everGranted = (op = "getAccess"
                                               /\ getAccess(u, t, uid) # ACCESS.NONE)]
    /\ UNCHANGED <<store, ret>>

\* "return v" of the current getAccess frame: the recursive frame hands a
\* non-NONE level to lines 51-53 and 78-80, which return it; after NONE the
\* outer frame goes on to the grant lookup.
Returns(v) ==
    IF call.inner # Null /\ v = ACCESS.NONE
    THEN /\ pc' = "findPerm"
         /\ call' = [call EXCEPT !.inner = Null]
    ELSE /\ pc' = "done"
         /\ call' = [call EXCEPT !.inner = Null, !.outcome = "level", !.level = v]

\* Line 18.
IsAdminStep ==
    /\ pc = "isAdmin"
    /\ call.op = "getAccess"
    /\ IF isAdmin(call.user)
       THEN Returns(ACCESS.ADMIN)
       ELSE /\ pc' = CASE CurType = "project" -> "findProject"
                       [] CurType \in {"task", "note"} -> "findChild"
                       [] OTHER -> "findPerm"
            /\ call' = call
    /\ UNCHANGED <<store, ret>>

\* Lines 22-28.
FindProjectStep ==
    /\ pc = "findProject"
    /\ LET proj == FindByUid(projects, CurUid)
       IN  IF proj = {} THEN Returns(ACCESS.NONE)
           ELSE IF Row(proj).user_id = call.user THEN Returns(ACCESS.RW)
           ELSE pc' = "findPerm" /\ call' = call
    /\ UNCHANGED <<store, ret>>

\* Lines 30-39 and 57-66.
FindChildStep ==
    /\ pc = "findChild"
    /\ LET t == FindByUid(ChildTable(call.type), call.uid)
       IN  IF t = {} THEN Returns(ACCESS.NONE)
           ELSE IF Row(t).user_id = call.user THEN Returns(ACCESS.RW)
           ELSE IF Row(t).project_id # Null
           THEN pc' = "findParent" /\ call' = [call EXCEPT !.project_id = Row(t).project_id]
           ELSE pc' = "findPerm" /\ call' = call
    /\ UNCHANGED <<store, ret>>

\* Variant of FindParentStep: a parent that is not found ends the call with NONE.
FindParentStepGivesUp ==
    /\ pc = "findParent"
    /\ LET project == FindById(projects, call.project_id)
       IN  IF project # {}
           THEN pc' = "isAdmin" /\ call' = [call EXCEPT !.inner = Row(project).uid]
           ELSE /\ pc' = "done"
                /\ call' = [call EXCEPT !.parentMissing = TRUE, !.outcome = "level",
                                        !.level = ACCESS.NONE]
    /\ UNCHANGED <<store, ret>>

\* Lines 40-50 and 67-77.
FindParentStep ==
    /\ pc = "findParent"
    /\ LET project == FindById(projects, call.project_id)
       IN  IF project # {}
           THEN pc' = "isAdmin" /\ call' = [call EXCEPT !.inner = Row(project).uid]
           ELSE pc' = "findPerm" /\ call' = [call EXCEPT !.parentMissing = TRUE]
    /\ UNCHANGED <<store, ret>>

\* Lines 86-95.
FindPermStep ==
    /\ pc = "findPerm"
    /\ LET perm == FindPermission(call.user, CurType, CurUid)
       IN  Returns(IF perm # {} THEN Row(perm).access_level ELSE ACCESS.NONE)
    /\ UNCHANGED <<store, ret>>

Answers(where) ==
    /\ pc' = "done"
    /\ call' = [call EXCEPT !.outcome = "where", !.where = where]

\* Lines 100-102.
WhereIsAdminStep ==
    /\ pc = "isAdmin"
    /\ call.op = "where"
    /\ IF isAdmin(call.user)
       THEN Answers(NoRestriction)
       ELSE pc' = "sharedUids" /\ call' = call
    /\ UNCHANGED <<store, ret>>

\* Lines 104-107 and 137-144.
SharedUidsStep ==
    /\ pc = "sharedUids"
    /\ LET sharedUids == getSharedUidsForUser(call.type, call.user)
       IN  IF call.type \in {"task", "note"}
           THEN pc' = "sharedProjectUids" /\ call' = [call EXCEPT !.sharedUids = sharedUids]
           ELSE Answers(AnyOf(OtherConditions(call.user, sharedUids)))
    /\ UNCHANGED <<store, ret>>

\* Lines 108-112.
SharedProjectUidsStep ==
    /\ pc = "sharedProjectUids"
    /\ LET sharedProjectUids == getSharedUidsForUser("project", call.user)
       IN  IF sharedProjectUids # {}
           THEN /\ pc' = "findProjects"
                /\ call' = [call EXCEPT !.sharedProjectUids = sharedProjectUids]
           ELSE Answers(AnyOf(ChildConditions(call.user, call.sharedUids, {})))
    /\ UNCHANGED <<store, ret>>

\* Lines 113-133.
FindProjectsStep ==
    /\ pc = "findProjects"
    /\ Answers(AnyOf(ChildConditions(call.user, call.sharedUids,
                                     SharedProjectIds(call.sharedProjectUids))))
    /\ UNCHANGED <<store, ret>>

\* Variant of ReadFails: the failure is caught and answered with NONE.
ReadFailsSwallowed ==
    /\ pc \in ReadPcs
    /\ pc' = "done"
    /\ call' = [call EXCEPT !.failed = TRUE, !.inner = Null, !.outcome = "level",
                            !.level = ACCESS.NONE]
    /\ UNCHANGED <<store, ret>>

\* The awaited read rejects (any await of lines 8, 18, 22, 30, 40, 57, 67, 86,
\* 100, 113): the frame throws at that await.
ReadFails ==
    /\ pc \in ReadPcs
    /\ pc' = "rejected"
    /\ call' = [call EXCEPT !.failed = TRUE]
    /\ UNCHANGED <<store, ret>>

\* No frame has a try/catch: the rejection of the recursive frame rejects the
\* await of lines 46 and 73, and the rejection of the outer frame is the
\* outcome of the call.
Propagate ==
    /\ pc = "rejected"
    /\ IF call.inner # Null
       THEN pc' = "rejected" /\ call' = [call EXCEPT !.inner = Null]
       ELSE pc' = "done" /\ call' = [call EXCEPT !.outcome = "error"]
    /\ UNCHANGED <<store, ret>>

\* The caller takes the outcome.
Finish ==
    /\ pc = "done"
    /\ pc' = "idle"
    /\ call' = NoCall
    /\ UNCHANGED <<store, ret>>

\* A store change by another request, before a call or while one awaits a
\* read; while a getAccess call is in flight everGranted records whether an
\* isolated getAccess with the same arguments would have answered other than
\* NONE in any store state so far.
InterleavedMutate ==
    /\ pc \in {"idle"} \cup ReadPcs
    /\ Mutate
    /\ Cardinality(perms') <= MaxInFlightGrants
    /\ pc' = pc
    /\ call' = IF call.op = "getAccess"
               THEN [call EXCEPT !.everGranted =
                        @ \/ \E u \in {call.user}, t \in {call.type}, uid \in {call.uid} :
                                 (getAccess(u, t, uid) # ACCESS.NONE)']
               ELSE call
    /\ UNCHANGED ret

Init ==
    /\ admins = {}
    /\ projects = {}
    /\ tasks = {}
    /\ notes = {}
    /\ perms = {}
    /\ ret = Idle
    /\ pc = "idle"
    /\ call = NoCall

IsolatedMutate == ret = Idle /\ Mutate /\ UNCHANGED <<ret, pc, call>>

Next ==
    \/ IsolatedMutate
    \/ \E u \in Users, t \in ResourceTypes, uid \in Uids : GetAccessCall(u, t, uid)
    \/ \E u \in Users, t \in ResourceTypes : WhereCall(t, u)
    \/ Return

Spec == Init /\ [][Next]_vars

NextInterleaved ==
    \/ InterleavedMutate
    \/ \E u \in Users, t \in ResourceTypes, uid \in Uids : Begin("getAccess", u, t, uid)
    \/ \E u \in Users, t \in ResourceTypes : Begin("where", u, t, Null)
    \/ IsAdminStep
    \/ FindProjectStep
    \/ FindChildStep
    \/ FindParentStep
    \/ FindPermStep
    \/ WhereIsAdminStep
    \/ SharedUidsStep
    \/ SharedProjectUidsStep
    \/ FindProjectsStep
    \/ ReadFails
    \/ Propagate
    \/ Finish

SpecInterleaved == Init /\ [][NextInterleaved]_vars

\* ------------------------------------------------------------------ claims
\* What the stores hold, read directly (independently of the resolver).
Grant(u, t, uid) ==
    IF \E p \in perms : p.user_id = u /\ p.resource_type = t /\ p.resource_uid = uid
    THEN (CHOOSE p \in perms :
              p.user_id = u /\ p.resource_type = t /\ p.resource_uid = uid).access_level
    ELSE "none"

Exists(t, uid) == \E r \in Table(t) : r.uid = uid
ChildTypes == {"task", "note"}
ParentOf(x) == {p \in projects : p.id = x.project_id}
GrantedUids(u, t) == {p.resource_uid : p \in {q \in perms : q.user_id = u /\ q.resource_type = t}}
GrantedProjectIds(u) == {p.id : p \in {q \in projects : q.uid \in GrantedUids(u, "project")}}
RankOf(level) == CASE level = "none" -> 0 [] level = "ro" -> 1 [] level = "rw" -> 2 [] OTHER -> 3
Answered(op) == ret.op = op

\* C1: every existing resource the filter of ownershipOrPermissionWhere(t, u)
\* rejects resolves to NONE under getAccess(u, t, r.uid).
C1_FilterConsistent ==
    \A u \in Users, t \in KnownTypes : \A r \in Table(t) :
        ~Matches(ownershipOrPermissionWhere(t, u), r) => getAccess(u, t, r.uid) = "none"

\* C2: an administrator resolves to ADMIN for every type and uid, existing or not.
C2_AdminSupremacy ==
    /\ \A u \in admins, t \in ResourceTypes, uid \in Uids : getAccess(u, t, uid) = "admin"
    /\ (Answered("getAccess") /\ ret.user \in admins) => ret.level = "admin"

C2_Witness ==
    /\ Answered("getAccess")
    /\ ret.user \in admins
    /\ ret.type \in KnownTypes
    /\ ~Exists(ret.type, ret.uid)
    /\ perms = {}
    /\ ret.level = "admin"

\* C3 (as stated): the owner of an existing resource resolves to RW, whoever
\* the owner is.
C3_OwnershipFloorAnyUser ==
    \A u \in Users, t \in KnownTypes : \A r \in Table(t) :
        r.user_id = u => getAccess(u, t, r.uid) = "rw"

\* C3 (amended): a non-admin owner of an existing resource resolves to RW,
\* whatever grants exist and whatever the parent project resolves to.
C3_OwnershipFloor ==
    /\ \A u \in Users \ admins, t \in KnownTypes : \A r \in Table(t) :
           r.user_id = u => getAccess(u, t, r.uid) = "rw"
    /\ \A u \in admins, t \in KnownTypes : \A r \in Table(t) :
           r.user_id = u => getAccess(u, t, r.uid) = "admin"

C3_Witness ==
    /\ Answered("getAccess")
    /\ ret.user \notin admins
    /\ ret.type = "task"
    /\ \E x \in tasks : x.uid = ret.uid /\ x.user_id = ret.user
    /\ Grant(ret.user, "task", ret.uid) = "ro"
    /\ ret.level = "rw"

\* C4 (as stated): a child with an existing parent project resolves to the
\* parent's level when that is not NONE, and to its explicit grant otherwise.
C4_InheritanceAnyUser ==
    \A u \in Users, t \in ChildTypes : \A x \in Table(t) : \A p \in ParentOf(x) :
        getAccess(u, t, x.uid) =
            IF getAccess(u, "project", p.uid) # "none"
            THEN getAccess(u, "project", p.uid)
            ELSE Grant(u, t, x.uid)

\* C4 (amended): the same, for users who do not own the child.
C4_Inheritance ==
    \A u \in Users, t \in ChildTypes : \A x \in Table(t) : \A p \in ParentOf(x) :
        x.user_id # u =>
            getAccess(u, t, x.uid) =
                IF getAccess(u, "project", p.uid) # "none"
                THEN getAccess(u, "project", p.uid)
                ELSE Grant(u, t, x.uid)

C4_Witness ==
    /\ Answered("getAccess")
    /\ ret.user \notin admins
    /\ ret.type = "note"
    /\ \E x \in notes : /\ x.uid = ret.uid
                        /\ x.user_id # ret.user
                        /\ \E p \in ParentOf(x) : p.user_id = ret.user
    /\ Grant(ret.user, "note", ret.uid) = "none"
    /\ ret.level = "rw"

C7_SharedProjectPath ==
    \A u \in Users \ admins : \A p \in projects :
        Grant(u, "project", p.uid) # "none" =>
            \A t \in ChildTypes : \A x \in Table(t) :
                x.project_id = p.id => Matches(ownershipOrPermissionWhere(t, u), x)

C7_Witness ==
    /\ Answered("where")
    /\ ret.user \notin admins
    /\ ret.type = "task"
    /\ \E x \in tasks : /\ x.user_id # ret.user
                        /\ Grant(ret.user, "task", x.uid) = "none"
                        /\ \E p \in ParentOf(x) : Grant(ret.user, "project", p.uid) = "ro"
                        /\ Matches(ret.where, x)

\* The conditions of a filter, and the parts of C8 that the code and the
\* claim agree on.
Conds(w) == {w.or[i] : i \in 1..Len(w.or)}
IsOwnerCond(c, u) == c.field = "user_id" /\ c.op = "eq" /\ c.user = u
IsUidIn(c) == c.field = "uid" /\ c.op = "in"
IsProjectIdIn(c) == c.field = "project_id" /\ c.op = "in"
IsPlaceholder(c) == c.field = "uid" /\ c.op = "is_null"

C8_Listed(u, t) ==
    LET w == ownershipOrPermissionWhere(t, u)
    IN  /\ ~w.all
        /\ Len(w.or) = Cardinality(Conds(w))
        /\ \E c \in Conds(w) : IsOwnerCond(c, u)
        /\ (GrantedUids(u, t) # {}) <=> (\E c \in Conds(w) : IsUidIn(c))
        /\ \A c \in Conds(w) : IsUidIn(c) => c.set = GrantedUids(u, t)
        /\ (t \in ChildTypes /\ GrantedProjectIds(u) # {})
               <=> (\E c \in Conds(w) : IsProjectIdIn(c))
        /\ \A c \in Conds(w) : IsProjectIdIn(c) => c.set = GrantedProjectIds(u)

\* C8 (as stated): the filter holds the owner condition, the uid condition
\* exactly when sharedUids is nonempty, the parent condition exactly when the
\* type is task or note and sharedProjectIds is nonempty, and nothing else.
C8_NoPlaceholder ==
    \A u \in Users \ admins, t \in ResourceTypes :
        /\ C8_Listed(u, t)
        /\ \A c \in Conds(ownershipOrPermissionWhere(t, u)) :
               IsOwnerCond(c, u) \/ IsUidIn(c) \/ IsProjectIdIn(c)

\* C8 (amended): as stated for task and note; for every other type an empty
\* sharedUids is replaced by the placeholder uid IS NULL, which no row satisfies.
C8_Conditions ==
    \A u \in Users \ admins, t \in ResourceTypes :
        /\ C8_Listed(u, t)
        /\ \A c \in Conds(ownershipOrPermissionWhere(t, u)) :
               \/ IsOwnerCond(c, u)
               \/ IsUidIn(c)
               \/ IsProjectIdIn(c)
               \/ /\ IsPlaceholder(c)
                  /\ t \notin ChildTypes
                  /\ GrantedUids(u, t) = {}
                  /\ \A r \in Table(t) : ~CondHolds(c, r)
        /\ (t \notin ChildTypes /\ GrantedUids(u, t) = {})
               => \E c \in Conds(ownershipOrPermissionWhere(t, u)) : IsPlaceholder(c)

C8_Witness ==
    /\ Answered("where")
    /\ ret.user \notin admins
    /\ ret.type = "project"
    /\ GrantedUids(ret.user, "project") = {}
    /\ projects # {}
    /\ Len(ret.where.or) = 2
    /\ IsPlaceholder(ret.where.or[2])

\* C9 (as stated): for a non-admin who does not own a task or note, the result
\* is never lower than the user's explicit grant on it.
C9_DirectGrantFloor ==
    \A u \in Users \ admins, t \in ChildTypes : \A x \in Table(t) :
        x.user_id # u => RankOf(getAccess(u, t, x.uid)) >= RankOf(Grant(u, t, x.uid))

\* C9 (amended): the inherited level takes precedence over the direct grant:
\* the result is lower than the explicit grant exactly when the parent project
\* resolves to a non-NONE level weaker than that grant, and it is then the
\* parent's level.
C9_InheritedBeforeDirect ==
    \A u \in Users \ admins, t \in ChildTypes : \A x \in Table(t) :
        x.user_id # u =>
            LET direct == Grant(u, t, x.uid)
                result == getAccess(u, t, x.uid)
                weaker == {p \in ParentOf(x) :
                              /\ p.user_id # u
                              /\ Grant(u, "project", p.uid) # "none"
                              /\ RankOf(Grant(u, "project", p.uid)) < RankOf(direct)}
            IN  /\ (RankOf(result) < RankOf(direct)) <=> (weaker # {})
                /\ \A p \in weaker : result = Grant(u, "project", p.uid)

C9_Witness ==
    /\ Answered("getAccess")
    /\ ret.user \notin admins
    /\ ret.type = "task"
    /\ \E x \in tasks : /\ x.uid = ret.uid
                        /\ x.user_id # ret.user
                        /\ \E p \in ParentOf(x) : Grant(ret.user, "project", p.uid) = "ro"
    /\ Grant(ret.user, "task", ret.uid) = "rw"
    /\ ret.level = "ro"

\* C6: a failed read makes the failure the outcome of the call: after it no
\* further read is issued (no retry), and the call ends with the error, never
\* with an access level or a predicate; and no call ends with an error unless
\* a read failed.
C6_FailuresPropagate ==
    /\ call.failed =>
           /\ pc \in {"rejected", "done"}
           /\ call.level = ""
           /\ call.outcome \in {"", "error"}
           /\ pc = "done" => call.outcome = "error"
    /\ call.outcome = "error" => call.failed
    /\ pc = "done" => call.outcome \in {"level", "where", "error"}

C6_Witness ==
    /\ pc = "done"
    /\ call.op = "getAccess"
    /\ call.type = "note"
    /\ call.project_id # Null
    /\ call.failed
    /\ call.outcome = "error"

\* C10: a getAccess call whose parent lookup finds no project (the project was
\* deleted after the child row was read) raises no error and goes on to the
\* explicit-grant lookup on the child, whose level, or NONE, it returns.  That
\* such a call can return a level other than NONE although an isolated call
\* would have returned NONE in every store state of its lifetime is the
\* reachability of C10_TornSnapshot.
C10_ParentDeletedContinues ==
    [][/\ (/\ pc = "findParent"
           /\ pc' # "findParent"
           /\ ~call'.failed
           /\ ParentOf(call) = {})
          => /\ pc' = "findPerm"
             /\ call'.inner = Null
             /\ call'.outcome = ""
             /\ <<call'.user, call'.type, call'.uid>> = <<call.user, call.type, call.uid>>
       /\ (/\ pc = "findPerm"
           /\ call.parentMissing
           /\ pc' = "done"
           /\ ~call'.failed)
          => /\ call'.outcome = "level"
             /\ call'.level = Grant(call.user, call.type, call.uid)]_vars

C10_TornSnapshot ==
    /\ pc = "done"
    /\ call.op = "getAccess"
    /\ call.type = "task"
    /\ Exists("task", call.uid)
    /\ call.project_id # Null
    /\ ~call.parentMissing
    /\ ~call.failed
    /\ call.outcome = "level"
    /\ call.level # "none"
    /\ ~call.everGranted

====
